---------------------------- MODULE Spec2Model ----------------------------
(***************************************************************************)
(* Ball_Bounce: a ball bounces under gravity inside concentric rotating    *)
(* rings, each with one angular gap; when the ball meets the innermost     *)
(* remaining ring inside its gap it escapes, the ring is destroyed with a  *)
(* particle burst and every remaining ring reverses its rotation.          *)
(*                                                                         *)
(* Source: src/ball_bounce_french.py (src/ball_bounce_english.py is the    *)
(* same program with translated comments).                                 *)
(*                                                                         *)
(* Arithmetic.  The program computes in floating point; the model computes *)
(* in exact fixed point:                                                   *)
(*   - lengths in units of 1/Px pixel (Px = 20, so that gravity, 0.05      *)
(*     px/frame^2, is 1 unit);                                             *)
(*   - angles in units of 0.00025 rad (circle_rotation_speed_offset is 1   *)
(*     unit), a full turn being TwoPi = 25132 units.                       *)
(* hypot, atan2, cos and sin are exact on the two axes through the ring    *)
(* centre and only there.  Every behaviour of the model keeps the ball on  *)
(* one axis (the invariant OnAxis): with gravity the vertical axis is the  *)
(* only line the dynamics leave invariant, without gravity both axes are.  *)
(* Rounding of the floating point operations is outside the model.         *)
(***************************************************************************)
EXTENDS Integers, Sequences, FiniteSets, TLC

VARIABLES
    settings,    \* the settings a run may vary: [gravity, base_hole_angle]
    pc,          \* position of the main program in its loop
    running,     \* the loop flag
    angle,       \* module-level `angle`: the ball's launch direction
    ball,        \* the Ball object
    circles,     \* the list of live Circle objects, innermost first
    particles,   \* the list of live Particle objects
    result,      \* `result` of the frame's check_collision
    screen,      \* what the frame's drawing step put on the surface
    history,     \* ghost: the ball's position after each Ball.update()
    spawned,     \* ghost: number of particles created so far
    contacts,    \* ghost: frames whose test found d + r > collision_radius
    escapes,     \* ghost: frames whose test returned "escape"
    escape_frame, \* ghost: the frame of the latest escape, 0 before any
    probe        \* inputs and output of the pure-function specifications

vars == <<settings, pc, running, angle, ball, circles, particles, result,
          screen, history, spawned, contacts, escapes, escape_frame, probe>>

(***************************************************************************)
(* Units and bounds                                                        *)
(***************************************************************************)
Px == 20
TwoPi == 25132
Pi == TwoPi \div 2
HalfPi == TwoPi \div 4

\* Bounds of the model: the frames a run lasts, the start offsets sampled on
\* each side of the centre, the spacing of the angles is_angle_in_range is
\* applied to, and, in place of the program's 150 particles per burst with
\* lifetimes 35..50 (settings lines 40, 43, 44), a small burst of short-lived
\* particles.
MaxFrames == 140
OffsetSamples == 5
AngleStep == 2000
particle_count == 1
particle_min_lifetime == 1
particle_max_lifetime == 2

(***************************************************************************)
(* settings                                                                *)
(***************************************************************************)
gravity == 1
ball_elasticity == 1
num_circles == 25
base_radius == 45 * Px
radius_increment == 100 * Px
radius_increment_factor_inv == 10
circle_thickness == 5 * Px
circle_rotation_speed == 20
circle_rotation_speed_offset == 1
hole_size == 2000
base_hole_angle == 6000
circle_color_mode == "gradient"
circle_colors == << <<255, 187, 0>>, <<255, 0, 0>> >>
ball_speed == (5 * Px) \div 2
ball_radius == 5 * Px
ball_color == <<255, 255, 255>>
ball_trail_length == 8
ball_trail_width == 5 * Px
ball_trail_color == <<220, 220, 220>>
particle_min_size == 1
particle_max_size == 1
width == 800 * Px
height == 600 * Px
ball_start_range == 50 * Px

(***************************************************************************)
(* Utility functions                                                       *)
(***************************************************************************)
Abs(v) == IF v < 0 THEN -v ELSE v

\* int(): truncation towards zero, here from length units to whole pixels
IntPx(v) == IF v >= 0 THEN v \div Px ELSE -((-v) \div Px)

normalize_angle(a) == a % TwoPi

\* mutant: the wrapping interval is tested with `and`
is_angle_in_range_And(a, start, end) ==
    IF start > end
    THEN a >= start /\ a <= end
    ELSE start <= a /\ a <= end

is_angle_in_range(a, start, end) ==
    IF start > end
    THEN a >= start \/ a <= end
    ELSE start <= a /\ a <= end

\* math.hypot, math.atan2, math.cos, math.sin on the axes
Hypot(dx, dy) ==
    CASE dx = 0 -> Abs(dy)
      [] dy = 0 -> Abs(dx)

Atan2(dy, dx) ==
    CASE dy = 0 /\ dx >= 0 -> 0
      [] dx = 0 /\ dy > 0 -> HalfPi
      [] dy = 0 /\ dx < 0 -> Pi
      [] dx = 0 /\ dy < 0 -> -HalfPi

Cos(a) ==
    CASE a = 0 -> 1
      [] a = HalfPi -> 0
      [] a = Pi -> -1
      [] a = Pi + HalfPi -> 0

Sin(a) ==
    CASE a = 0 -> 0
      [] a = HalfPi -> 1
      [] a = Pi -> 0
      [] a = Pi + HalfPi -> -1

AxisAngles == {0, HalfPi, Pi, Pi + HalfPi}

get_circle_color(i, total) ==
    LET colors == circle_colors
    IN  IF circle_color_mode = "alternating"
        THEN colors[(i % Len(colors)) + 1]
        ELSE IF circle_color_mode = "gradient"
        THEN IF Len(colors) < 2
             THEN colors[1]
             ELSE \* int(c0 + (c1 - c0) * i / (total - 1)), the value being >= 0
                  LET mix(k) ==
                          IF total > 1
                          THEN (colors[1][k] * (total - 1)
                                + (colors[2][k] - colors[1][k]) * i) \div (total - 1)
                          ELSE colors[1][k]
                  IN  <<mix(1), mix(2), mix(3)>>
        ELSE colors[1]

(***************************************************************************)
(* Circle                                                                  *)
(***************************************************************************)
Circle(x, y, r, hole_angle, size, color, thickness, rotation_speed) ==
    [x |-> x, y |-> y, r |-> r, hole_angle |-> hole_angle, hole_size |-> size,
     color |-> color, thickness |-> thickness,
     rotation_speed |-> rotation_speed, rotation |-> 0]

Circle_update(c) ==
    [c EXCEPT !.rotation = normalize_angle(c.rotation + c.rotation_speed)]

gap_start(c) ==
    normalize_angle(normalize_angle(c.hole_angle + c.rotation) - c.hole_size \div 2)

gap_end(c) ==
    normalize_angle(normalize_angle(c.hole_angle + c.rotation) + c.hole_size \div 2)

\* the arcs Circle.draw hands to draw_ring_arc, in drawing order
Circle_draw(c) ==
    LET arc(s, e) == [r |-> c.r, thickness |-> c.thickness, start |-> s,
                      end |-> e, color |-> c.color]
    IN  IF gap_start(c) < gap_end(c)
        THEN <<arc(gap_end(c), TwoPi), arc(0, gap_start(c))>>
        ELSE <<arc(gap_end(c), gap_start(c))>>

\* the list built at start-up, innermost first
CreatedCircles(hole_angle) ==
    [k \in 1..num_circles |->
        Circle(width \div 2, height \div 2,
               base_radius + (k - 1) * (radius_increment \div radius_increment_factor_inv),
               hole_angle, hole_size, get_circle_color(k - 1, num_circles),
               circle_thickness,
               circle_rotation_speed + (k - 1) * circle_rotation_speed_offset)]

(***************************************************************************)
(* Ball                                                                    *)
(***************************************************************************)
Ball(x, y, r, color) ==
    [pos |-> <<x, y>>, r |-> r, color |-> color, vel |-> <<0, 0>>, trail |-> <<>>]

\* mutant: the newest entry of the trail is evicted
Ball_update_PopLast(b, g) ==
    LET vel == <<b.vel[1], b.vel[2] + g>>
        pos == <<b.pos[1] + vel[1], b.pos[2] + vel[2]>>
        trail == Append(b.trail, pos)
    IN  [b EXCEPT !.vel = vel, !.pos = pos,
                  !.trail = IF Len(trail) > ball_trail_length
                            THEN SubSeq(trail, 1, Len(trail) - 1) ELSE trail]

Ball_update(b, g) ==
    LET vel == <<b.vel[1], b.vel[2] + g>>
        pos == <<b.pos[1] + vel[1], b.pos[2] + vel[2]>>
        trail == Append(b.trail, pos)
    IN  [b EXCEPT !.vel = vel, !.pos = pos,
                  !.trail = IF Len(trail) > ball_trail_length
                            THEN Tail(trail) ELSE trail]

Distance(b, c) == Hypot(b.pos[1] - c.x, b.pos[2] - c.y)

collision_radius(c) == c.r - c.thickness \div 2

\* the test of line 223
Touches(b, c) == Distance(b, c) + b.r > collision_radius(c)

angle_ball(b, c) == normalize_angle(Atan2(b.pos[2] - c.y, b.pos[1] - c.x))

InGap(b, c) == is_angle_in_range(angle_ball(b, c), gap_start(c), gap_end(c))

\* mutant: the overlap leaves out the ball's radius
Reflect_NoRadius(b, c) ==
    LET normal == <<Cos(angle_ball(b, c)), Sin(angle_ball(b, c))>>
        dot == b.vel[1] * normal[1] + b.vel[2] * normal[2]
        vel == <<(b.vel[1] - 2 * dot * normal[1]) * ball_elasticity,
                 (b.vel[2] - 2 * dot * normal[2]) * ball_elasticity>>
        overlap == Distance(b, c) - collision_radius(c)
    IN  [b EXCEPT !.vel = vel,
                  !.pos = <<b.pos[1] - normal[1] * overlap,
                            b.pos[2] - normal[2] * overlap>>]

\* mutant: the normal component is removed instead of reversed
Reflect_Half(b, c) ==
    LET normal == <<Cos(angle_ball(b, c)), Sin(angle_ball(b, c))>>
        dot == b.vel[1] * normal[1] + b.vel[2] * normal[2]
        vel == <<(b.vel[1] - dot * normal[1]) * ball_elasticity,
                 (b.vel[2] - dot * normal[2]) * ball_elasticity>>
        overlap == (Distance(b, c) + b.r) - collision_radius(c)
    IN  [b EXCEPT !.vel = vel,
                  !.pos = <<b.pos[1] - normal[1] * overlap,
                            b.pos[2] - normal[2] * overlap>>]

\* the reflection branch, lines 231-239
Reflect(b, c) ==
    LET normal == <<Cos(angle_ball(b, c)), Sin(angle_ball(b, c))>>
        dot == b.vel[1] * normal[1] + b.vel[2] * normal[2]
        vel == <<(b.vel[1] - 2 * dot * normal[1]) * ball_elasticity,
                 (b.vel[2] - 2 * dot * normal[2]) * ball_elasticity>>
        overlap == (Distance(b, c) + b.r) - collision_radius(c)
    IN  [b EXCEPT !.vel = vel,
                  !.pos = <<b.pos[1] - normal[1] * overlap,
                            b.pos[2] - normal[2] * overlap>>]

\* mutant: the ball is reflected before the gap is tested
check_collision_ReflectFirst(b, c) ==
    IF Touches(b, c)
    THEN IF InGap(b, c)
         THEN [ret |-> "escape", ball |-> Reflect(b, c)]
         ELSE [ret |-> "None", ball |-> Reflect(b, c)]
    ELSE [ret |-> "None", ball |-> b]

\* check_collision: the value returned and the ball it leaves
check_collision(b, c) ==
    IF Touches(b, c)
    THEN IF InGap(b, c)
         THEN [ret |-> "escape", ball |-> b]
         ELSE [ret |-> "None", ball |-> Reflect(b, c)]
    ELSE [ret |-> "None", ball |-> b]

Ball_draw(b) ==
    [trail |-> IF Len(b.trail) > 1
               THEN [k \in 1..Len(b.trail) |->
                        [pos |-> b.trail[k], alpha |-> (255 * k) \div Len(b.trail)]]
               ELSE <<>>,
     pos |-> <<IntPx(b.pos[1]), IntPx(b.pos[2])>>, r |-> b.r, color |-> b.color]

(***************************************************************************)
(* Particle                                                                *)
(***************************************************************************)
\* the random draws of one particle of a burst, sampled jointly: one draw per
\* lifetime and size, its direction along the horizontal axis, its speed in
\* the middle of uniform(1, 3) and no jitter
BurstAngles == {0, Pi}
BurstSpeed == 2 * Px
ParticleDraws ==
    {[angle |-> a, lifetime |-> l, size |-> z] :
        <<a, l, z>> \in {t \in BurstAngles
                               \X (particle_min_lifetime..particle_max_lifetime)
                               \X (particle_min_size..particle_max_size) :
                            (t[1] = 0) <=> (t[2] % 2 = 0)}}

Particle_update(p) ==
    [p EXCEPT !.x = p.x + p.vel[1], !.y = p.y + p.vel[2],
              !.lifetime = p.lifetime - 1, !.updates = p.updates + 1]

Particle_draw(p) ==
    [pos |-> <<IntPx(p.x), IntPx(p.y)>>, size |-> p.size, color |-> p.color,
     id |-> p.id]

\* the particles generate_particles_from_circle appends for the draws ds;
\* id, lifetime0 and updates are ghost fields
generate_particles_from_circle(c, ds, first) ==
    [k \in 1..Len(ds) |->
        [x |-> c.x + c.r * Cos(ds[k].angle),
         y |-> c.y + c.r * Sin(ds[k].angle),
         color |-> c.color,
         lifetime |-> ds[k].lifetime,
         size |-> ds[k].size,
         vel |-> <<Cos(ds[k].angle) * BurstSpeed, Sin(ds[k].angle) * BurstSpeed>>,
         id |-> first + k, lifetime0 |-> ds[k].lifetime, updates |-> 0]]

\* mutant: the filter keeps a particle whose lifetime is 0
IsLive_Inclusive(p) == p.lifetime >= 0

\* the filter of line 300
IsLive(p) == p.lifetime > 0

(***************************************************************************)
(* The program                                                             *)
(***************************************************************************)
NoProbe == [kind |-> "none"]
BlankScreen == [circles |-> <<>>, ball |-> <<>>, particles |-> <<>>]

\* module initialisation up to the main loop, for the settings s, the start
\* offsets (ox, oy) and the launch direction a
Start(s, ox, oy, a) ==
    /\ settings = s
    /\ running = TRUE
    /\ angle = a
    /\ ball = [Ball(width \div 2 + ox, height \div 2 + oy, ball_radius, ball_color)
                  EXCEPT !.vel = <<Cos(a) * ball_speed, Sin(a) * ball_speed>>]
    /\ circles = CreatedCircles(s.base_hole_angle)
    /\ particles = <<>>
    /\ result = "None"
    /\ screen = BlankScreen
    /\ history = <<>>
    /\ spawned = 0
    /\ contacts = 0
    /\ escapes = 0
    /\ escape_frame = 0

\* samples of random.uniform(-50, 50)
StartOffsets ==
    {(k * ball_start_range) \div OffsetSamples : k \in 0..OffsetSamples}
    \cup {-((k * ball_start_range) \div OffsetSamples) : k \in 0..OffsetSamples}

\* the program as written: the ball starts on the vertical axis through the
\* centre and is launched along it
Init ==
    /\ \E oy \in StartOffsets, a \in {HalfPi, Pi + HalfPi} :
          Start([gravity |-> gravity, base_hole_angle |-> base_hole_angle], 0, oy, a)
    /\ pc = "loop"
    /\ probe = NoProbe

\* mutant: the rings are advanced before the collision test
StepAfter_AdvanceFirst(p) ==
    CASE p = "ball" -> "particles"
      [] p = "particles" -> "circles"
      [] p = "circles" -> "collision"
      [] p = "collision" -> "draw"
      [] p = "draw" -> "loop"

\* the order of the statements of the loop body, lines 297-320
StepAfter(p) ==
    CASE p = "ball" -> "particles"
      [] p = "particles" -> "collision"
      [] p = "collision" -> "circles"
      [] p = "circles" -> "draw"
      [] p = "draw" -> "loop"

\* while running: clock.tick, event loop
PollEvents ==
    /\ pc = "loop" /\ running
    /\ Len(history) < MaxFrames
    /\ \E quit \in BOOLEAN : running' = ~quit
    /\ pc' = "ball"
    /\ UNCHANGED <<settings, angle, ball, circles, particles, result, screen,
                   history, spawned, contacts, escapes,
                   escape_frame, probe>>

\* ball.update()
BallStep ==
    /\ pc = "ball"
    /\ ball' = Ball_update(ball, settings.gravity)
    /\ history' = Append(history, ball'.pos)
    /\ pc' = StepAfter(pc)
    /\ UNCHANGED <<settings, running, angle, circles, particles, result, screen,
                   spawned, contacts, escapes,
                   escape_frame, probe>>

\* for p in particles: p.update(); particles = [p ... if p.lifetime > 0]
ParticleStep ==
    /\ pc = "particles"
    /\ particles' = SelectSeq([k \in 1..Len(particles) |-> Particle_update(particles[k])],
                              IsLive)
    /\ pc' = StepAfter(pc)
    /\ UNCHANGED <<settings, running, angle, ball, circles, result, screen,
                   history, spawned, contacts, escapes,
                   escape_frame, probe>>

\* mutant: the guard is missing
HasCircles_Always(cs) == TRUE

\* `if circles:`
HasCircles(cs) == cs # <<>>

\* mutant: the outermost ring is tested instead of the innermost
ActiveCircle_Last(cs) == cs[Len(cs)]

\* `circles[0]`, of a non-empty list
ActiveCircle(cs) == cs[1]

\* mutant: the escaped ring is not removed
EscapeCircles_NoPop(cs) ==
    [k \in 1..Len(cs) |-> [cs[k] EXCEPT !.rotation_speed = -cs[k].rotation_speed]]

\* mutant: only the escaped ring's direction is reversed
EscapeCircles_FlipFirst(cs) == Tail(cs)

\* for c in circles: c.rotation_speed = -c.rotation_speed; circles.pop(0)
EscapeCircles(cs) ==
    Tail([k \in 1..Len(cs) |-> [cs[k] EXCEPT !.rotation_speed = -cs[k].rotation_speed]])

\* if circles: result = ball.check_collision(circles[0]); escape handling.
\* circles[0] of an empty list raises IndexError, which ends the program.
CollisionStep ==
    /\ pc = "collision"
    /\ IF HasCircles(circles)
       THEN IF Len(circles) = 0
            THEN /\ pc' = "IndexError"
                 /\ UNCHANGED <<result, ball, contacts, escapes, escape_frame,
                                particles, spawned, circles>>
            ELSE LET c == ActiveCircle(circles)
                     cc == check_collision(ball, c)
                 IN  /\ result' = cc.ret
                     /\ ball' = cc.ball
                     /\ contacts' = IF Touches(ball, c) THEN contacts + 1 ELSE contacts
                     /\ pc' = StepAfter(pc)
                     /\ IF cc.ret = "escape"
                        THEN /\ \E ds \in [1..particle_count -> ParticleDraws] :
                                   particles' = particles \o
                                       generate_particles_from_circle(c, ds, spawned)
                             /\ spawned' = spawned + particle_count
                             /\ escapes' = escapes + 1
                             /\ escape_frame' = Len(history)
                             /\ circles' = EscapeCircles(circles)
                        ELSE UNCHANGED <<particles, spawned, escapes, escape_frame,
                                         circles>>
       ELSE /\ pc' = StepAfter(pc)
            /\ UNCHANGED <<result, ball, contacts, escapes, escape_frame, particles,
                           spawned, circles>>
    /\ UNCHANGED <<settings, running, angle, screen, history, probe>>

\* for circle in circles: circle.update()
CirclesStep ==
    /\ pc = "circles"
    /\ circles' = [k \in 1..Len(circles) |-> Circle_update(circles[k])]
    /\ pc' = StepAfter(pc)
    /\ UNCHANGED <<settings, running, angle, ball, particles, result, screen,
                   history, spawned, contacts, escapes,
                   escape_frame, probe>>

\* screen.fill; circles drawn outermost first, then the ball, then the particles
DrawStep ==
    /\ pc = "draw"
    /\ screen' = [circles |-> [k \in 1..Len(circles) |->
                                  Circle_draw(circles[Len(circles) + 1 - k])],
                  ball |-> Ball_draw(ball),
                  particles |-> [k \in 1..Len(particles) |-> Particle_draw(particles[k])]]
    /\ pc' = StepAfter(pc)
    /\ UNCHANGED <<settings, running, angle, ball, circles, particles, result,
                   history, spawned, contacts, escapes,
                   escape_frame, probe>>

\* the loop ends: pygame.quit()
Quit ==
    /\ pc = "loop" /\ ~running
    /\ pc' = "done"
    /\ UNCHANGED <<settings, running, angle, ball, circles, particles, result,
                   screen, history, spawned, contacts, escapes,
                   escape_frame, probe>>

Next ==
    \/ PollEvents
    \/ BallStep
    \/ ParticleStep
    \/ CollisionStep
    \/ CirclesStep
    \/ DrawStep
    \/ Quit

Spec == Init /\ [][Next]_vars

(***************************************************************************)
(* The end-to-end scenario: gravity 0, elasticity 1.0, the ball at the     *)
(* ring centre, launched at the gap centre or exactly opposite it.  The    *)
(* gap centre lies on one of the four axis directions.                     *)
(***************************************************************************)
InitE2E ==
    /\ \E h \in AxisAngles, a \in AxisAngles :
          /\ a \in {h, normalize_angle(h + Pi)}
          /\ Start([gravity |-> 0, base_hole_angle |-> h], 0, 0, a)
    /\ pc = "loop"
    /\ probe = NoProbe

SpecE2E == InitE2E /\ [][Next]_vars

(***************************************************************************)
(* is_angle_in_range as a function of its three arguments                  *)
(***************************************************************************)
AngleSamples ==
    {k * AngleStep : k \in 0..((TwoPi - 1) \div AngleStep)}
    \cup {TwoPi - 1, 2000, 12000, 22000, 24000}

InitAngle ==
    /\ Start([gravity |-> gravity, base_hole_angle |-> base_hole_angle], 0, 0, HalfPi)
    /\ pc = "probe"
    /\ \E a \in AngleSamples, s \in AngleSamples, e \in AngleSamples :
          probe = [kind |-> "angle", angle |-> a, start |-> s, end |-> e,
                   done |-> FALSE, out |-> FALSE]

ApplyInRange ==
    /\ pc = "probe" /\ probe.kind = "angle" /\ ~probe.done
    /\ probe' = [probe EXCEPT !.done = TRUE,
                              !.out = is_angle_in_range(probe.angle, probe.start, probe.end)]
    /\ UNCHANGED <<settings, pc, running, angle, ball, circles, particles, result,
                   screen, history, spawned, contacts, escapes, escape_frame>>

NextAngle == ApplyInRange

SpecAngle == InitAngle /\ [][NextAngle]_vars

(***************************************************************************)
(* Circle.draw against the gap test of check_collision, for one ring state *)
(* and one angle                                                           *)
(***************************************************************************)
\* gap widths: none, the configured one, two wider than a half turn
GapWidths == {0, hole_size, 6 * hole_size, 10 * hole_size}

HoleAngles == {0, base_hole_angle, TwoPi - hole_size \div 2}

\* the angles draw_ring_arc sweeps from start_angle to end_angle
ArcCovers(arc, a) ==
    \/ arc.start <= a /\ a <= arc.end
    \/ arc.end <= a /\ a <= arc.start

Covered(arcs, a) == \E k \in 1..Len(arcs) : ArcCovers(arcs[k], a)

\* the test check_collision makes for a ball touching ring c at angle a
GapTest(a, c) == is_angle_in_range(a, gap_start(c), gap_end(c))

InitDraw ==
    /\ Start([gravity |-> gravity, base_hole_angle |-> base_hole_angle], 0, 0, HalfPi)
    /\ pc = "probe"
    /\ \E a \in AngleSamples, rot \in AngleSamples, ha \in HoleAngles, hs \in GapWidths :
          probe = [kind |-> "draw", angle |-> a,
                   circle |-> [Circle(width \div 2, height \div 2, base_radius, ha, hs,
                                      get_circle_color(0, num_circles), circle_thickness,
                                      circle_rotation_speed)
                               EXCEPT !.rotation = rot],
                   done |-> FALSE, arcs |-> <<>>, escape |-> FALSE]

ApplyDraw ==
    /\ pc = "probe" /\ probe.kind = "draw" /\ ~probe.done
    /\ probe' = [probe EXCEPT !.done = TRUE,
                              !.arcs = Circle_draw(probe.circle),
                              !.escape = GapTest(probe.angle, probe.circle)]
    /\ UNCHANGED <<settings, pc, running, angle, ball, circles, particles, result,
                   screen, history, spawned, contacts, escapes, escape_frame>>

NextDraw == ApplyDraw

SpecDraw == InitDraw /\ [][NextDraw]_vars

(***************************************************************************)
(* Properties                                                              *)
(***************************************************************************)
\* the ball stays on an axis through the ring centre, where the arithmetic
\* of the model is exact
OnAxis ==
    \/ ball.pos[1] = width \div 2 /\ ball.vel[1] = 0
    \/ ball.pos[2] = height \div 2 /\ ball.vel[2] = 0

\* the collision step of a frame whose test returns "escape"
EscapeFrame == pc = "collision" /\ circles # <<>> /\ result' = "escape"

\* the rings as created, for the settings of the run
Created == CreatedCircles(settings.base_hole_angle)

\* C1: the live ring count never increases and never becomes negative; the
\* collision step of a frame whose test returns escape removes exactly the
\* ring at index 0, every other step leaves the count unchanged, and after N
\* escapes exactly N fewer rings remain than were created.
C1_RingCount ==
    [][ /\ Len(circles') <= Len(circles)
        /\ Len(circles') >= 0
        /\ Len(circles') = num_circles - escapes'
        /\ EscapeFrame =>
              /\ Len(circles') = Len(circles) - 1
              /\ escapes' = escapes + 1
              /\ \A k \in 1..Len(circles') : circles'[k].r = circles[k + 1].r
        /\ ~EscapeFrame => Len(circles') = Len(circles) /\ escapes' = escapes
      ]_vars

C1_Witness ==
    /\ pc = "circles" /\ result = "escape"
    /\ escapes = 3 /\ Len(circles) = num_circles - 3

\* C2: on each escape the rotation_speed of every remaining ring is negated
\* in that step and it changes in no other step; after k escapes every
\* remaining ring's rotation_speed is (-1)^k times its creation value, so
\* all remaining rings turn in the same direction.
C2_RotationSpeed ==
    [][ /\ EscapeFrame =>
              \A k \in 1..Len(circles') :
                  circles'[k].rotation_speed = -circles[k + 1].rotation_speed
        /\ ~EscapeFrame =>
              /\ Len(circles') = Len(circles)
              /\ \A k \in 1..Len(circles) :
                    circles'[k].rotation_speed = circles[k].rotation_speed
        /\ \A k \in 1..Len(circles') :
              circles'[k].rotation_speed =
                  (IF escapes' % 2 = 0 THEN 1 ELSE -1)
                  * Created[k + escapes'].rotation_speed
        /\ \A j, k \in 1..Len(circles') :
              circles'[j].rotation_speed * circles'[k].rotation_speed > 0
      ]_vars

C2_Witness ==
    /\ pc = "draw" /\ escapes = 3 /\ Len(circles) > 1
    /\ \A k \in 1..Len(circles) : circles[k].rotation_speed < 0

\* C3: the live rings are a suffix of the creation-ordered list, with
\* strictly increasing radius, so index 0 is the innermost remaining ring;
\* the frame's collision test is made against that ring only: the step
\* returns escape or moves the ball exactly when the ball reaches the band
\* of that ring, whatever other bands the ball overlaps.
C3_ActiveRing ==
    [][ /\ Len(circles) <= num_circles
        /\ \A k \in 1..Len(circles) :
              LET o == Created[k + (num_circles - Len(circles))]
              IN  /\ circles[k].r = o.r /\ circles[k].color = o.color
                  /\ circles[k].x = o.x /\ circles[k].y = o.y
                  /\ circles[k].thickness = o.thickness
        /\ \A k \in 1..(Len(circles) - 1) : circles[k].r < circles[k + 1].r
        /\ pc = "collision" /\ circles # <<>> =>
              /\ Touches(ball, circles[1])
                    <=> (result' = "escape" \/ ball'.pos # ball.pos)
              /\ ~Touches(ball, circles[1]) => ball' = ball /\ result' = "None"
        /\ pc = "collision" /\ circles = <<>> => ball' = ball
      ]_vars

\* the ball overlaps the band of a ring other than the active one (here an
\* escaped one), and the collision step left it alone
C3_Witness ==
    /\ pc = "circles" /\ circles # <<>> /\ result = "None"
    /\ ball.pos = history[Len(history)]
    /\ ~Touches(ball, circles[1])
    /\ \E k \in 1..escapes : Touches(ball, Created[k])

\* the collision test of a frame: the ring tested
Tested == circles[1]

\* C4: check_collision changes the ball's velocity and position only when it
\* reflects: with d + r <= collision_radius it returns None and changes
\* nothing, with the ball's angle in the gap it returns escape and changes
\* nothing; it never changes the trail, and the ring it tested is as it was.
C4_NoMutation ==
    [][ pc = "collision" /\ circles # <<>> =>
          /\ ~Touches(ball, Tested) =>
                result' = "None" /\ ball' = ball /\ circles' = circles
          /\ Touches(ball, Tested) /\ InGap(ball, Tested) =>
                result' = "escape" /\ ball' = ball
          /\ ball'.trail = ball.trail /\ ball'.r = ball.r
          /\ result' = "None" => circles' = circles
          /\ result' = "escape" =>
                \A k \in 1..Len(circles') :
                    circles'[k] = [circles[k + 1] EXCEPT !.rotation_speed =
                                       -circles[k + 1].rotation_speed]
      ]_vars

\* a frame's test returned escape with the ball where its update left it
C4_Witness ==
    /\ pc = "circles" /\ result = "escape" /\ escapes = 2
    /\ ball.pos = history[Len(history)]
    /\ Touches(ball, Created[2]) /\ ball.trail # <<>>

\* C5: with the ball overlapping the tested ring's band outside the gap,
\* check_collision returns None, reflects the velocity about the radial
\* normal (v' = v - 2 (v.n) n, n = (pos - centre) / d) and puts the ball
\* where d + r = collision_radius; so after the collision step of a frame
\* whose outcome is not escape the ball does not penetrate the tested band.
C5_Reflection ==
    [][ pc = "collision" /\ circles # <<>> =>
          LET dx == ball.pos[1] - Tested.x
              dy == ball.pos[2] - Tested.y
              d == Distance(ball, Tested)
              \* v.n, n = (dx, dy) / d: a whole number on the axes
              vn == (ball.vel[1] * dx + ball.vel[2] * dy) \div d
          IN  /\ Touches(ball, Tested) /\ ~InGap(ball, Tested) =>
                    /\ result' = "None"
                    /\ d > 0 /\ d * d = dx * dx + dy * dy
                    /\ vn * d = ball.vel[1] * dx + ball.vel[2] * dy
                    /\ d * ball'.vel[1] = d * ball.vel[1] - 2 * vn * dx
                    /\ d * ball'.vel[2] = d * ball.vel[2] - 2 * vn * dy
                    /\ Distance(ball', Tested) + ball'.r = collision_radius(Tested)
                    \* moved along the normal, on the same side of the centre
                    /\ (ball'.pos[1] - Tested.x) * dy = (ball'.pos[2] - Tested.y) * dx
                    /\ (ball'.pos[1] - Tested.x) * dx + (ball'.pos[2] - Tested.y) * dy >= 0
              /\ result' # "escape" => ~Touches(ball', Tested)
      ]_vars

\* a reflection off the top of the innermost ring and one off a later ring
C5_Witness ==
    /\ pc = "circles" /\ result = "None" /\ circles # <<>>
    /\ ball.pos # history[Len(history)]
    /\ Distance(ball, circles[1]) + ball.r = collision_radius(circles[1])
    /\ ball.vel[2] > 0 /\ Len(history) > 1

\* C6: after every Ball.update() the trail holds at most ball_trail_length
\* entries, exactly that many after more than ball_trail_length updates, and
\* they are the positions after the most recent updates, oldest first.
C6_Trail ==
    LET n == Len(history)
        m == Len(ball.trail)
    IN  /\ m <= ball_trail_length
        /\ n > ball_trail_length => m = ball_trail_length
        /\ m = (IF n < ball_trail_length THEN n ELSE ball_trail_length)
        /\ \A k \in 1..m : ball.trail[k] = history[n - m + k]

C6_Witness ==
    /\ Len(history) = ball_trail_length + 3
    /\ Len(ball.trail) = ball_trail_length
    /\ ball.trail[1] = history[4]
    /\ ball.trail[1] # ball.trail[ball_trail_length]

\* C7: a particle created with lifetime L is in the live list after fewer
\* than L updates and is filtered out in the step that updates it for the
\* L-th time, when its lifetime first reaches <= 0; after the filter every
\* particle has lifetime > 0.
C7_ParticleLifetime ==
    [][ /\ \A k \in 1..Len(particles') :
              LET p == particles'[k]
              IN  /\ p.lifetime > 0
                  /\ p.lifetime = p.lifetime0 - p.updates
                  /\ p.updates < p.lifetime0
        /\ pc = "particles" =>
              \A k \in 1..Len(particles) :
                  LET p == particles[k]
                      after == {j \in 1..Len(particles') : particles'[j].id = p.id}
                  IN  IF p.updates + 1 = p.lifetime0
                      THEN after = {}
                      ELSE \E j \in after :
                              /\ Cardinality(after) = 1
                              /\ particles'[j].updates = p.updates + 1
                              /\ particles'[j].lifetime = p.lifetime - 1
        /\ pc # "particles" =>
              \A k \in 1..Len(particles) : particles'[k] = particles[k]
      ]_vars

\* a particle of the longest lifetime about to receive its last update, and
\* one already gone
C7_Witness ==
    /\ pc = "particles" /\ Len(particles) = 1 /\ spawned >= 2
    /\ particles[1].lifetime0 = particle_max_lifetime
    /\ particles[1].updates = particle_max_lifetime - 1
    /\ particles[1].lifetime = 1

\* C8: once no ring remains none ever does, and the frame does not fail: the
\* collision step changes nothing (no escape, no burst, no reflection), the
\* ring advance leaves the list empty, Ball.update() still runs and the
\* particles are still updated and filtered.
C8_Drained ==
    [][ circles = <<>> =>
          /\ circles' = <<>>
          /\ pc' # "IndexError"
          /\ escapes' = escapes /\ spawned' = spawned /\ contacts' = contacts
          /\ pc = "collision" =>
                /\ pc' = "circles"
                /\ ball' = ball /\ particles' = particles /\ result' = result
          /\ pc = "circles" => pc' = "draw" /\ ball' = ball
          /\ pc = "ball" =>
                /\ pc' = "particles"
                /\ ball'.vel = <<ball.vel[1], ball.vel[2] + settings.gravity>>
                /\ ball'.pos = <<ball.pos[1] + ball'.vel[1], ball.pos[2] + ball'.vel[2]>>
                /\ Len(history') = Len(history) + 1
          /\ pc = "particles" =>
                /\ pc' = "collision"
                /\ Len(particles') =
                      Cardinality({k \in 1..Len(particles) : particles[k].lifetime > 1})
                /\ \A k \in 1..Len(particles') : particles'[k].updates >= 1
      ]_vars

\* drained, a later frame's collision and ring steps done, the last burst's
\* particle still live and updated since
C8_Witness ==
    /\ circles = <<>> /\ pc = "draw" /\ escapes = num_circles
    /\ particles # <<>> /\ particles[1].updates >= 1
    /\ Len(history) > 2

\* C9: for angle, start, end in [0, 2 pi), is_angle_in_range is true exactly
\* when angle lies on the closed circular interval from start round to end:
\* (angle - start) mod 2 pi <= (end - start) mod 2 pi; with start = 5.5 and
\* end = 0.5, 6.0 is inside and 3.0 is outside.
C9_AngleInRange ==
    /\ probe.kind = "angle" /\ probe.done =>
          /\ probe.angle \in 0..(TwoPi - 1)
          /\ probe.start \in 0..(TwoPi - 1)
          /\ probe.end \in 0..(TwoPi - 1)
          /\ probe.out <=> ((probe.angle - probe.start) % TwoPi
                              <= (probe.end - probe.start) % TwoPi)
          /\ probe.start = 22000 /\ probe.end = 2000 /\ probe.angle = 24000 => probe.out
          /\ probe.start = 22000 /\ probe.end = 2000 /\ probe.angle = 12000 => ~probe.out

C9_Witness ==
    /\ probe.kind = "angle" /\ probe.done
    /\ probe.start = 22000 /\ probe.end = 2000 /\ probe.angle = 24000
    /\ probe.out

\* the velocity the ball is launched with
LaunchVel == <<Cos(angle) * ball_speed, Sin(angle) * ball_speed>>

\* the first frame in which d + r > collision_radius
FirstContact ==
    /\ pc = "collision" /\ circles # <<>>
    /\ contacts = 0 /\ Touches(ball, Tested)

\* C10: with gravity 0 and elasticity 1.0, the ball starting at the ring
\* centre: launched at the gap centre it reaches the ring with its launch
\* velocity and escapes on first contact with its velocity unchanged;
\* launched exactly opposite the gap centre it is reflected on first
\* contact, its velocity negated and so of the same magnitude.
C10_EndToEnd ==
    [][ FirstContact =>
          /\ settings.gravity = 0 /\ ball_elasticity = 1
          /\ Len(circles) = num_circles /\ Tested.rotation_speed # 0
          /\ Tested.rotation # 0
          /\ ball.vel = LaunchVel
          /\ angle = settings.base_hole_angle =>
                result' = "escape" /\ ball'.vel = ball.vel
          /\ angle = normalize_angle(settings.base_hole_angle + Pi) =>
                /\ result' = "None"
                /\ ball'.vel = <<-ball.vel[1], -ball.vel[2]>>
                /\ ball'.vel[1] * ball'.vel[1] + ball'.vel[2] * ball'.vel[2]
                      = ball_speed * ball_speed
      ]_vars

\* both launches have met the ring: one escaped, one bounced straight back
C10_Witness ==
    /\ pc = "circles" /\ contacts = 1 /\ escapes = 0
    /\ settings.gravity = 0
    /\ angle = normalize_angle(settings.base_hole_angle + Pi)
    /\ ball.vel = <<-LaunchVel[1], -LaunchVel[2]>>
    /\ ball.vel # <<0, 0>>

\* the current frame is one whose collision test returned escape
EscapedNow == escape_frame > 0 /\ escape_frame = Len(history)

\* the ring that escaped last
Escaped == Created[escapes]

\* the ids of the particles of the latest burst
BurstIds == (spawned - particle_count + 1)..spawned

\* C11: every frame runs ball update, particle update and filter, collision
\* test with escape handling, ring advance, render, in that order.  So the
\* collision test sees the ball where this frame's update put it, the
\* particles already updated and filtered, and every ring as the previous
\* frame advanced and rendered it; a ring that escapes in a frame is neither
\* advanced nor rendered in that frame; and the particles of its burst are
\* rendered in that frame not yet updated or filtered.
C11_FrameOrder ==
    [][ /\ pc = "loop" => pc' \in {"ball", "done"}
        /\ pc = "ball" => pc' = "particles" /\ Len(history') = Len(history) + 1
        /\ pc = "particles" => pc' = "collision"
        /\ pc = "collision" => pc' = "circles"
        /\ pc = "circles" => pc' = "draw"
        /\ pc = "draw" => pc' = "loop"
        /\ pc = "collision" =>
              /\ Len(history) >= 1 /\ ball.pos = history[Len(history)]
              /\ \A k \in 1..Len(particles) : particles[k].updates >= 1
              /\ Len(history) = 1 =>
                    \A k \in 1..Len(circles) : circles[k].rotation = 0
              /\ Len(history) > 1 =>
                    /\ Len(screen.circles) = Len(circles)
                    /\ \A k \in 1..Len(circles) :
                          screen.circles[Len(circles) + 1 - k] = Circle_draw(circles[k])
        /\ pc = "circles" =>
              /\ Len(circles') = Len(circles)
              /\ \A k \in 1..Len(circles) :
                    /\ circles'[k].r = circles[k].r
                    /\ circles'[k].rotation =
                          (circles[k].rotation + circles[k].rotation_speed) % TwoPi
                    /\ EscapedNow => circles[k].r # Escaped.r
        /\ pc = "draw" =>
              /\ Len(screen'.circles) = Len(circles)
              /\ \A k \in 1..Len(circles) :
                    /\ Len(screen'.circles[k]) >= 1
                    /\ screen'.circles[k][1].r = circles[Len(circles) + 1 - k].r
              /\ Len(screen'.particles) = Len(particles)
              /\ EscapedNow =>
                    /\ \A k \in 1..Len(screen'.circles) :
                          \A j \in 1..Len(screen'.circles[k]) :
                              screen'.circles[k][j].r # Escaped.r
                    /\ \A i \in BurstIds :
                          \E j \in 1..Len(particles) :
                              /\ particles[j].id = i
                              /\ particles[j].updates = 0
                              /\ particles[j].lifetime = particles[j].lifetime0
                              /\ Abs(particles[j].x - Escaped.x)
                                    + Abs(particles[j].y - Escaped.y) = Escaped.r
                              /\ screen'.particles[j].id = i
                              /\ screen'.particles[j].pos =
                                    <<IntPx(particles[j].x), IntPx(particles[j].y)>>
      ]_vars

\* an escape frame just rendered: the burst's particle on the screen beside an
\* older, updated one, the escaped ring not among the rings drawn
C11_Witness ==
    /\ pc = "loop" /\ EscapedNow /\ escapes = 3
    /\ Len(screen.circles) = num_circles - 3
    /\ Len(screen.particles) = 2
    /\ screen.particles[2].id = spawned
    /\ particles[1].updates >= 1 /\ particles[2].updates = 0

\* the ring and the angle of a finished draw probe
Drawn == probe.kind = "draw" /\ probe.done

\* the angle lies in the gap and on neither of its ends
StrictlyInside ==
    /\ probe.escape
    /\ probe.angle # gap_start(probe.circle)
    /\ probe.angle # gap_end(probe.circle)

\* C12: for every ring state the arcs Circle.draw draws cover the complement
\* of the gap check_collision uses: an angle outside the gap, where a ball is
\* reflected, is covered by an arc, and an angle strictly inside the gap,
\* where a ball escapes, is covered by none, whether the gap wraps or not and
\* also when gap_start = gap_end.
C12_RenderComplement ==
    Drawn =>
        /\ ~probe.escape => Covered(probe.arcs, probe.angle)
        /\ StrictlyInside => ~Covered(probe.arcs, probe.angle)

\* the same, for the ring states whose gap has two distinct ends
C12_DistinctEnds ==
    Drawn /\ gap_start(probe.circle) # gap_end(probe.circle) =>
        /\ ~probe.escape => Covered(probe.arcs, probe.angle)
        /\ StrictlyInside => ~Covered(probe.arcs, probe.angle)

=============================================================================
